---- MODULE Spec2Model ----
(***************************************************************************)
(* The deal harness of itests/kit/deals.go: the polling converger          *)
(* WaitDealStates with its check factories DealState, DealSectorState and  *)
(* DealOn, the callback StartSealingWaiting, and the event-driven          *)
(* converger WaitDealPublished, run against a market / sealing             *)
(* collaborator whose deals and sectors change on their own.               *)
(***************************************************************************)
EXTENDS Integers, Sequences, FiniteSets, TLC

\* ------------------------------------------------------------------ bounds
MaxDeals == 2      \* deal identities are 1..MaxDeals
MaxSector == 1     \* sector numbers are 0..MaxSector
MaxChecks == 2     \* longest list of supplied checks
MaxSize == 4       \* checks + input deals + listed sectors of one scenario
MaxPasses == 2     \* polling passes one invocation may begin
MaxUpdates == 2    \* updates waiting in the subscription at once
MaxSettlingSize == 3  \* scenario size under SettlingSpec

Deals == 1..MaxDeals
SectorNumbers == 0..MaxSector

\* --------------------------------------------------- collaborator's values
\* storagemarket.StorageDealStatus values the harness names, and one
\* intermediate state (StorageDealPublishing) it names nowhere.
StorageDealPublishing == "StorageDealPublishing"
StorageDealProposalRejected == "StorageDealProposalRejected"
StorageDealFailing == "StorageDealFailing"
StorageDealError == "StorageDealError"
StorageDealFinalizing == "StorageDealFinalizing"
StorageDealAwaitingPreCommit == "StorageDealAwaitingPreCommit"
StorageDealSealing == "StorageDealSealing"
StorageDealActive == "StorageDealActive"

DealStatuses ==
  { StorageDealPublishing, StorageDealProposalRejected, StorageDealFailing,
    StorageDealError, StorageDealFinalizing, StorageDealAwaitingPreCommit,
    StorageDealSealing, StorageDealActive }

\* di.Message: empty unless the deal errored
Messages == {"insufficient funds"}

DealValues ==
  { [State |-> s, Message |-> ""] : s \in DealStatuses \ {StorageDealError} }
    \cup { [State |-> StorageDealError, Message |-> m] : m \in Messages }

\* sealing.SectorState values: WaitDeals is named by StartSealingWaiting
WaitDeals == "WaitDeals"
Proving == "Proving"
SectorStates == {WaitDeals, Proving}

SectorValues == [num : SectorNumbers, state : SectorStates, deals : SUBSET Deals]

SeqsUpTo(S, n) == UNION { [1..k -> S] : k \in 0..n }

Range(s) == { s[i] : i \in 1..Len(s) }

\* a sector listing names every sector once
SectorWorlds ==
  { w \in SeqsUpTo(SectorValues, MaxSector + 1) :
      \A i, j \in 1..Len(w) : w[i].num = w[j].num => i = j }

\* --------------------------------------------------------- supplied checks
\* A DealStateCheck value is the factory that built it with the arguments it
\* captured.
MkDealState(expect) == [kind |-> "DealState", expect |-> expect, sector |-> ""]
MkDealSectorState(expect) == [kind |-> "DealSectorState", expect |-> <<>>, sector |-> expect]
MkDealOn(states) == [kind |-> "DealOn", expect |-> states, sector |-> ""]

CheckPool ==
  { MkDealState(<<StorageDealActive>>),
    MkDealState(<<StorageDealSealing, StorageDealError>>),
    MkDealSectorState(Proving),
    MkDealOn(<<StorageDealAwaitingPreCommit, StorageDealSealing>>) }

CheckLists == SeqsUpTo(CheckPool, MaxChecks)

\* The deals argument: todo is a map keyed by the deals, so the order of the
\* argument is lost at once and only non-decreasing lists are drawn; a list
\* may repeat a deal.
DealLists ==
  { l \in SeqsUpTo(Deals, MaxDeals) : \A i \in 1..(Len(l) - 1) : l[i] <= l[i + 1] }

\* x is evaluated once and Then applied to its value: `v := x; Then(v)`
Bind(x, Then(_)) == CHOOSE y \in { Then(v) : v \in {x} } : TRUE

\* ---------------------------------------------------- one goroutine's run
\* The collaborator calls an evaluation has made, in order; err marks a call
\* that returned an error. failAt is the call the collaborator fails (0: none).
\* fail is <<>> while the test goroutine runs and the arguments of
\* t.Fatal / the failed requirement once it has exited.
NoFail == <<>>

NewRun(failAt) == [calls |-> <<>>, failAt |-> failAt, fail |-> NoFail, cbs |-> 0]

Failed(run) == run.fail # NoFail

Call(run, op, arg) ==
  IF Failed(run) THEN run
  ELSE [run EXCEPT !.calls =
          Append(@, [op |-> op, arg |-> arg, err |-> (Len(@) + 1 = run.failAt)])]

LastErr(run) == Len(run.calls) > 0 /\ run.calls[Len(run.calls)].err

\* require.NoError(dh.t, err): FailNow ends the goroutine
RequireNoError(run) ==
  Bind(run, LAMBDA r :
    IF ~Failed(r) /\ LastErr(r)
    THEN [r EXCEPT !.fail = <<"NoError", r.calls[Len(r.calls)].op>>]
    ELSE r)

\* dh.t.Fatal(args...)
Fatal(run, args) == IF Failed(run) THEN run ELSE [run EXCEPT !.fail = args]

\* --------------------------------------------------- collaborator queries
DealInfo(info, d) ==
  [ProposalCid |-> d, DealID |-> d, State |-> info[d].State, Message |-> info[d].Message]

SectorsList(w) == [i \in 1..Len(w) |-> w[i].num]

SectorsStatus(w, n) == CHOOSE r \in Range(w) : r.num = n

\* ------------------------------------------------ StartSealingWaiting
\* dh.miner.FlushSealingBatches(ctx): a collaborator request whose failure
\* fails the test like every other request
FlushSealingBatches(run) ==
  RequireNoError(Call(run, "FlushSealingBatches", 0))

\* faulty variant of SealingLoop: only the first listed sector is examined
SealingLoopFirstOnly(run, w, i) ==
  IF Failed(run) \/ i > Len(w) THEN run
  ELSE LET snum == SectorsList(w)[i]
           si == SectorsStatus(w, snum)
       IN Bind(RequireNoError(Call(run, "SectorsStatus", snum)), LAMBDA r1 :
          Bind(IF ~Failed(r1) /\ si.state = WaitDeals
               THEN RequireNoError(Call(r1, "SectorStartSealing", snum))
               ELSE r1, LAMBDA r2 :
          FlushSealingBatches(r2)))

\* the body of `for _, snum := range snums`
RECURSIVE SealingLoop(_, _, _)
SealingLoop(run, w, i) ==
  IF Failed(run) \/ i > Len(w) THEN run
  ELSE LET snum == SectorsList(w)[i]
           si == SectorsStatus(w, snum)
       IN Bind(RequireNoError(Call(run, "SectorsStatus", snum)), LAMBDA r1 :
          Bind(IF ~Failed(r1) /\ si.state = WaitDeals
               THEN RequireNoError(Call(r1, "SectorStartSealing", snum))
               ELSE r1, LAMBDA r2 :
          Bind(FlushSealingBatches(r2), LAMBDA r3 :
          SealingLoop(r3, w, i + 1))))

StartSealingWaiting(run, w) ==
  Bind(RequireNoError(Call(run, "SectorsList", 0)), LAMBDA r1 :
  SealingLoop(r1, w, 1))

\* --------------------------------------------------------- check factories
\* Each check takes the run so far, the snapshot di and the sector number sn
\* and gives the run after it with the value it returned (ok); ok means
\* nothing when the run has failed, since the check never returned.
Contains(list, x) == \E i \in 1..Len(list) : list[i] = x

\* faulty variant of DealState: the switch has lost its StorageDealFailing case
DealStateNoFailing(expect, run, di, sn) ==
  IF Contains(expect, di.State) THEN [run |-> run, ok |-> TRUE]
  ELSE [run |->
          CASE di.State = StorageDealProposalRejected -> Fatal(run, <<"deal rejected">>)
            [] di.State = StorageDealError -> Fatal(run, <<"deal errored", di.Message>>)
            [] OTHER -> run,
        ok |-> FALSE]

\* faulty variant of DealState: the switch runs before the loop over expect
DealStateSwitchFirst(expect, run, di, sn) ==
  CASE di.State = StorageDealProposalRejected ->
         [run |-> Fatal(run, <<"deal rejected">>), ok |-> FALSE]
    [] di.State = StorageDealFailing ->
         [run |-> Fatal(run, <<"deal failed">>), ok |-> FALSE]
    [] di.State = StorageDealError ->
         [run |-> Fatal(run, <<"deal errored", di.Message>>), ok |-> FALSE]
    [] OTHER -> [run |-> run, ok |-> Contains(expect, di.State)]

DealState(expect, run, di, sn) ==
  IF Contains(expect, di.State) THEN [run |-> run, ok |-> TRUE]
  ELSE [run |->
          CASE di.State = StorageDealProposalRejected -> Fatal(run, <<"deal rejected">>)
            [] di.State = StorageDealFailing -> Fatal(run, <<"deal failed">>)
            [] di.State = StorageDealError -> Fatal(run, <<"deal errored", di.Message>>)
            [] OTHER -> run,
        ok |-> FALSE]

DealSectorState(expect, run, di, sn, w) ==
  IF sn = 0 THEN [run |-> run, ok |-> FALSE]
  ELSE Bind(RequireNoError(Call(run, "SectorsStatus", sn)), LAMBDA r1 :
       [run |-> r1, ok |-> ~Failed(r1) /\ SectorsStatus(w, sn).state = expect])

\* faulty variant of DealOn: the callback runs whatever the deal's state
DealOnAlwaysFires(states, run, di, sn, w) ==
  Bind(StartSealingWaiting([run EXCEPT !.cbs = @ + 1], w), LAMBDA r1 :
  [run |-> r1, ok |-> TRUE])

\* faulty variant of DealOn: the check returns whether the callback ran
DealOnReportsCallback(states, run, di, sn, w) ==
  IF Contains(states, di.State)
  THEN Bind(StartSealingWaiting([run EXCEPT !.cbs = @ + 1], w), LAMBDA r1 :
       [run |-> r1, ok |-> TRUE])
  ELSE [run |-> run, ok |-> FALSE]

DealOn(states, run, di, sn, w) ==
  IF Contains(states, di.State)
  THEN Bind(StartSealingWaiting([run EXCEPT !.cbs = @ + 1], w), LAMBDA r1 :
       [run |-> r1, ok |-> TRUE])
  ELSE [run |-> run, ok |-> TRUE]

\* check(ctx, di, ms) for a supplied check value
ApplyCheck(check, run, di, sn, w) ==
  CASE check.kind = "DealState" -> DealState(check.expect, run, di, sn)
    [] check.kind = "DealSectorState" -> DealSectorState(check.sector, run, di, sn, w)
    [] OTHER -> DealOn(check.expect, run, di, sn, w)

\* ----------------------------------------------------------- WaitDealStates
\* faulty variant of SectorLoop: the error of SectorsStatus is dropped
RECURSIVE SectorLoopDropsErr(_, _, _, _)
SectorLoopDropsErr(run, w, i, dealId) ==
  IF Failed(run) \/ i > Len(w) THEN [run |-> run, ms |-> 0]
  ELSE LET s == SectorsList(w)[i]
           si == SectorsStatus(w, s)
       IN Bind(Call(run, "SectorsStatus", s), LAMBDA r1 :
          IF ~LastErr(r1) /\ dealId \in si.deals THEN [run |-> r1, ms |-> s]
          ELSE SectorLoopDropsErr(r1, w, i + 1, dealId))

\* sloop: the first listed sector whose Deals hold di.DealID, 0 when none
RECURSIVE SectorLoop(_, _, _, _)
SectorLoop(run, w, i, dealId) ==
  IF Failed(run) \/ i > Len(w) THEN [run |-> run, ms |-> 0]
  ELSE LET s == SectorsList(w)[i]
           si == SectorsStatus(w, s)
       IN Bind(RequireNoError(Call(run, "SectorsStatus", s)), LAMBDA r1 :
          IF Failed(r1) THEN [run |-> r1, ms |-> 0]
          ELSE IF dealId \in si.deals THEN [run |-> r1, ms |-> s]
          ELSE SectorLoop(r1, w, i + 1, dealId))

\* faulty variant of CheckLoop: a check that returns false does not clear done
RECURSIVE CheckLoopKeepsDone(_, _, _, _, _, _, _)
CheckLoopKeepsDone(run, cks, i, di, ms, w, results) ==
  IF Failed(run) THEN [run |-> run, done |-> FALSE, results |-> results]
  ELSE IF i > Len(cks) THEN [run |-> run, done |-> TRUE, results |-> results]
  ELSE Bind(ApplyCheck(cks[i], run, di, ms, w), LAMBDA c :
       IF Failed(c.run) THEN [run |-> c.run, done |-> FALSE, results |-> results]
       ELSE IF ~c.ok
            THEN [run |-> c.run, done |-> TRUE, results |-> Append(results, FALSE)]
            ELSE Bind(Append(results, TRUE), LAMBDA res :
                 CheckLoopKeepsDone(c.run, cks, i + 1, di, ms, w, res)))

\* `for _, check := range stateChecks`: results are the values the checks
\* returned, done is the loop's flag
RECURSIVE CheckLoop(_, _, _, _, _, _, _)
CheckLoop(run, cks, i, di, ms, w, results) ==
  IF Failed(run) THEN [run |-> run, done |-> FALSE, results |-> results]
  ELSE IF i > Len(cks) THEN [run |-> run, done |-> TRUE, results |-> results]
  ELSE Bind(ApplyCheck(cks[i], run, di, ms, w), LAMBDA c :
       IF Failed(c.run) THEN [run |-> c.run, done |-> FALSE, results |-> results]
       ELSE IF ~c.ok
            THEN [run |-> c.run, done |-> FALSE, results |-> Append(results, FALSE)]
            ELSE Bind(Append(results, TRUE), LAMBDA res :
                 CheckLoop(c.run, cks, i + 1, di, ms, w, res)))

\* the body of `for deal := range todo`, up to the delete
Evaluate(d, cks, info, w, failAt) ==
  LET di == DealInfo(info, d)
  IN Bind(RequireNoError(Call(NewRun(failAt), "ClientGetDealInfo", d)), LAMBDA r1 :
     Bind(RequireNoError(Call(r1, "MarketListIncompleteDeals", 0)), LAMBDA r2 :
     Bind(RequireNoError(Call(r2, "SectorsList", 0)), LAMBDA r3 :
     Bind(SectorLoop(r3, w, 1, di.DealID), LAMBDA lk :
     Bind(CheckLoop(lk.run, cks, 1, di, lk.ms, w, <<>>), LAMBDA ck :
     [deal |-> d, ms |-> lk.ms, results |-> ck.results, done |-> ck.done,
      calls |-> ck.run.calls, cbs |-> ck.run.cbs, fail |-> ck.run.fail])))))

NoEval == [deal |-> 0, ms |-> 0, results |-> <<>>, done |-> FALSE,
           calls |-> <<>>, cbs |-> 0, fail |-> NoFail]

\* ------------------------------------------------------------------ state
VARIABLES
  op,        \* the helper the test called
  pc,        \* where its goroutine stands
  fail,      \* NoFail, or what the test failed with
  deals,     \* WaitDealStates: the deals argument
  checks,    \* WaitDealStates: the stateChecks argument
  todo,      \* WaitDealStates: the pending set
  visit,     \* keys of todo the running `range todo` has still to produce
  passes,    \* passes begun
  sleeps,    \* sleeps taken
  dealInfo,  \* market collaborator: state and message of every deal
  sectors,   \* sealing collaborator: the listed sectors, in listing order
  settled,   \* the collaborators have stopped changing deals and sectors
  lastEval,  \* the latest evaluation, while what it observed is still current
  passed,    \* deals for which some evaluation had every check return true
  target,    \* WaitDealPublished: the deal argument
  ctxDone,   \* WaitDealPublished: ctx.Done() is closed
  subCtx,    \* "none", "live" or "cancelled"
  updates,   \* updates waiting in the subscription, oldest first
  closed,    \* the collaborator has closed the update stream
  di,        \* WaitDealPublished: the update last received
  sealed,    \* WaitDealSealed: its arguments noseal, noSealStart and where it stands
  cfg,       \* ConfigStorageMiner: the argument c
  opts,      \* ConfigStorageMiner: options of the returned Option still to apply
  cfgErr     \* ConfigStorageMiner: "" or the error applying the Option gave

pollVars == <<deals, checks, todo, visit, passes, sleeps, lastEval, passed>>
envVars == <<dealInfo, sectors, settled>>
pubVars == <<target, ctxDone, subCtx, updates, closed, di>>
outerVars == <<sealed, cfg, opts, cfgErr>>
vars == <<op, pc, fail, pollVars, envVars, pubVars, outerVars>>

\* sealed outside WaitDealSealed, cfg outside ConfigStorageMiner
NotSealing == [noseal |-> FALSE, noSealStart |-> FALSE, at |-> "none", deal |-> 0]

NoConfig == [type |-> "none"]

\* the zero DealInfo: what a receive on a closed channel yields, and di
\* before the first receive
NoUpdate == [ProposalCid |-> 0, State |-> "StorageDealUnknown", Message |-> ""]

UpdateValues ==
  { [ProposalCid |-> d, State |-> v.State, Message |-> v.Message] :
      d \in Deals, v \in DealValues }

FreshDeal == [State |-> StorageDealPublishing, Message |-> ""]

Tracked == Range(deals)

\* WaitDealStates is called with stateChecks drawn from lists: todo is built
\* from deals (lines 142-145)
WaitDealStatesCalled(lists) ==
  /\ op = "WaitDealStates"
  /\ pc = "loop"
  /\ fail = NoFail
  /\ deals \in DealLists
  /\ checks \in lists
  /\ sectors \in SectorWorlds
  /\ Len(deals) + Len(checks) + Len(sectors) <= MaxSize
  /\ \A i \in 1..Len(sectors) : sectors[i].deals \subseteq Range(deals)
  /\ todo = Range(deals)
  /\ visit = {}
  /\ passes = 0
  /\ sleeps = 0
  /\ dealInfo = [d \in Deals |-> FreshDeal]
  /\ settled = FALSE
  /\ lastEval = NoEval
  /\ passed = {}
  /\ target = 0
  /\ ctxDone = FALSE
  /\ subCtx = "none"
  /\ updates = <<>>
  /\ closed = FALSE
  /\ di = NoUpdate
  /\ sealed = NotSealing
  /\ cfg = NoConfig
  /\ opts = <<>>
  /\ cfgErr = ""

InitWaitDealStates == WaitDealStatesCalled(CheckLists)

Running == pc \notin {"done", "failed"}

\* faulty variant of LoopCheck: a pass ranges over deals, not over todo
LoopCheckRangesDeals ==
  /\ op = "WaitDealStates"
  /\ pc = "loop"
  /\ IF todo = {}
     THEN pc' = "done" /\ UNCHANGED <<visit, passes>>
     ELSE /\ passes < MaxPasses
          /\ pc' = "pass"
          /\ visit' = Tracked
          /\ passes' = passes + 1
  /\ UNCHANGED <<op, fail, deals, checks, todo, sleeps, lastEval, passed, envVars, pubVars, outerVars>>

\* faulty variant of LoopCheck: the loop does not end when todo is empty, it
\* runs its body over nothing and sleeps
LoopCheckNoExit ==
  /\ op = "WaitDealStates"
  /\ pc = "loop"
  /\ passes < MaxPasses
  /\ pc' = IF todo = {} THEN "sleep" ELSE "pass"
  /\ visit' = todo
  /\ passes' = passes + 1
  /\ UNCHANGED <<op, fail, deals, checks, todo, sleeps, lastEval, passed, envVars, pubVars, outerVars>>

\* `for len(todo) > 0` (line 147): return, or begin a pass over todo
LoopCheck ==
  /\ op = "WaitDealStates"
  /\ pc = "loop"
  /\ IF todo = {}
     THEN pc' = "done" /\ UNCHANGED <<visit, passes>>
     ELSE /\ passes < MaxPasses
          /\ pc' = "pass"
          /\ visit' = todo
          /\ passes' = passes + 1
  /\ UNCHANGED <<op, fail, deals, checks, todo, sleeps, lastEval, passed, envVars, pubVars, outerVars>>

AllTrue(results) == \A i \in 1..Len(results) : results[i]

\* what evaluating d now can come to: every request answered, or one of the
\* requests it makes failed
Outcomes(d) ==
  Bind(Evaluate(d, checks, dealInfo, sectors, 0), LAMBDA r0 :
    {r0} \cup { Evaluate(d, checks, dealInfo, sectors, failAt) :
                  failAt \in 1..Len(r0.calls) })

\* faulty variant of EvalDeal: the deal is deleted from todo whatever done is
EvalDealDeletesAlways(d) ==
  /\ op = "WaitDealStates"
  /\ pc = "pass"
  /\ d \in visit
  /\ \E r \in Outcomes(d) :
       /\ lastEval' = r
       /\ fail' = r.fail
       /\ IF r.fail # NoFail
          THEN pc' = "failed" /\ UNCHANGED <<todo, visit, passed>>
          ELSE /\ todo' = todo \ {d}
               /\ visit' = visit \ {d}
               /\ pc' = IF visit' = {} THEN "sleep" ELSE "pass"
               /\ passed' = IF Len(r.results) = Len(checks) /\ AllTrue(r.results)
                            THEN passed \cup {d} ELSE passed
  /\ UNCHANGED <<op, deals, checks, passes, sleeps, envVars, pubVars, outerVars>>

\* one iteration of `for deal := range todo` (lines 148-192)
EvalDeal(d) ==
  /\ op = "WaitDealStates"
  /\ pc = "pass"
  /\ d \in visit
  /\ \E r \in Outcomes(d) :
       /\ lastEval' = r
       /\ fail' = r.fail
       /\ IF r.fail # NoFail
          THEN pc' = "failed" /\ UNCHANGED <<todo, visit, passed>>
          ELSE /\ todo' = IF r.done THEN todo \ {d} ELSE todo
               /\ visit' = visit \ {d}
               /\ pc' = IF visit' = {} THEN "sleep" ELSE "pass"
               /\ passed' = IF Len(r.results) = Len(checks) /\ AllTrue(r.results)
                            THEN passed \cup {d} ELSE passed
  /\ UNCHANGED <<op, deals, checks, passes, sleeps, envVars, pubVars, outerVars>>

\* time.Sleep(time.Second / 2) (line 194)
Sleep ==
  /\ op = "WaitDealStates"
  /\ pc = "sleep"
  /\ pc' = "loop"
  /\ sleeps' = sleeps + 1
  /\ UNCHANGED <<op, fail, deals, checks, todo, visit, passes, lastEval, passed, envVars, pubVars, outerVars>>

\* ------------------------------------------------------------ collaborators
\* the market moves a tracked deal to another state
DealMoves(d) ==
  /\ op = "WaitDealStates"
  /\ Running
  /\ ~settled
  /\ d \in Tracked
  /\ \E v \in DealValues \ {dealInfo[d]} : dealInfo' = [dealInfo EXCEPT ![d] = v]
  /\ lastEval' = NoEval
  /\ UNCHANGED <<op, pc, fail, deals, checks, todo, visit, passes, sleeps, passed, sectors, settled, pubVars, outerVars>>

\* a tracked deal's piece is added to a listed sector
AddPiece(i, d) ==
  /\ op = "WaitDealStates"
  /\ Running
  /\ ~settled
  /\ i \in 1..Len(sectors)
  /\ d \in Tracked \ sectors[i].deals
  /\ sectors' = [sectors EXCEPT ![i].deals = @ \cup {d}]
  /\ lastEval' = NoEval
  /\ UNCHANGED <<op, pc, fail, deals, checks, todo, visit, passes, sleeps, passed, dealInfo, settled, pubVars, outerVars>>

\* a sector waiting for deals is sealed
SectorSealed(i) ==
  /\ op = "WaitDealStates"
  /\ Running
  /\ ~settled
  /\ i \in 1..Len(sectors)
  /\ sectors[i].state = WaitDeals
  /\ sectors' = [sectors EXCEPT ![i].state = Proving]
  /\ lastEval' = NoEval
  /\ UNCHANGED <<op, pc, fail, deals, checks, todo, visit, passes, sleeps, passed, dealInfo, settled, pubVars, outerVars>>

\* -------------------------------------------------------- WaitDealPublished
\* WaitDealPublished is called
InitWaitDealPublished ==
  /\ op = "WaitDealPublished"
  /\ pc = "subscribe"
  /\ fail = NoFail
  /\ target \in Deals
  /\ ctxDone = FALSE
  /\ subCtx = "none"
  /\ updates = <<>>
  /\ closed = FALSE
  /\ di = NoUpdate
  /\ deals = <<>>
  /\ checks = <<>>
  /\ sectors = <<>>
  /\ todo = {}
  /\ visit = {}
  /\ passes = 0
  /\ sleeps = 0
  /\ dealInfo = [d \in Deals |-> FreshDeal]
  /\ settled = FALSE
  /\ lastEval = NoEval
  /\ passed = {}
  /\ sealed = NotSealing
  /\ cfg = NoConfig
  /\ opts = <<>>
  /\ cfgErr = ""

\* subCtx, cancel := context.WithCancel(ctx); defer cancel();
\* updates, err := dh.miner.MarketGetDealUpdates(subCtx) (lines 217-221).
\* The deferred cancel runs on every way out of the goroutine.
Subscribe ==
  /\ op = "WaitDealPublished"
  /\ pc = "subscribe"
  /\ \E failAt \in 0..1 :
       LET r == RequireNoError(Call(NewRun(failAt), "MarketGetDealUpdates", 0))
       IN /\ fail' = r.fail
          /\ pc' = IF Failed(r) THEN "failed" ELSE "select"
          /\ subCtx' = IF Failed(r) THEN "cancelled" ELSE "live"
  /\ UNCHANGED <<op, target, ctxDone, updates, closed, di, pollVars, envVars, outerVars>>

\* faulty variant of SelectDone: the select has no case for ctx.Done()
SelectDoneMissing ==
  /\ op = "WaitDealPublished"
  /\ pc = "select"
  /\ ctxDone
  /\ UNCHANGED vars

\* faulty variant of SelectDone: the done context makes the call return
SelectDoneReturns ==
  /\ op = "WaitDealPublished"
  /\ pc = "select"
  /\ ctxDone
  /\ pc' = "done"
  /\ subCtx' = "cancelled"
  /\ UNCHANGED <<op, fail, target, ctxDone, updates, closed, di, pollVars, envVars, outerVars>>

\* case <-ctx.Done() (lines 225-226)
SelectDone ==
  /\ op = "WaitDealPublished"
  /\ pc = "select"
  /\ ctxDone
  /\ fail' = Fatal(NewRun(0), <<"context timeout">>).fail
  /\ pc' = "failed"
  /\ subCtx' = "cancelled"
  /\ UNCHANGED <<op, target, ctxDone, updates, closed, di, pollVars, envVars, outerVars>>

PublishedStates ==
  { StorageDealFinalizing, StorageDealAwaitingPreCommit, StorageDealSealing,
    StorageDealActive }

\* faulty variant of OnUpdate: the update's ProposalCid is not compared
OnUpdateAnyDeal(deal, u) ==
  CASE u.State = StorageDealProposalRejected ->
         [run |-> Fatal(NewRun(0), <<"deal rejected">>), returned |-> FALSE]
    [] u.State = StorageDealFailing ->
         [run |-> Fatal(NewRun(0), <<"deal failed">>), returned |-> FALSE]
    [] u.State = StorageDealError ->
         [run |-> Fatal(NewRun(0), <<"deal errored", u.Message>>), returned |-> FALSE]
    [] u.State \in PublishedStates ->
         [run |-> NewRun(0), returned |-> TRUE]
    [] OTHER -> [run |-> NewRun(0), returned |-> FALSE]

\* faulty variant of OnUpdate: StorageDealFailing is reported as a rejection
OnUpdateMisreports(deal, u) ==
  IF deal = u.ProposalCid
  THEN CASE u.State \in {StorageDealProposalRejected, StorageDealFailing} ->
              [run |-> Fatal(NewRun(0), <<"deal rejected">>), returned |-> FALSE]
         [] u.State = StorageDealError ->
              [run |-> Fatal(NewRun(0), <<"deal errored", u.Message>>), returned |-> FALSE]
         [] u.State \in PublishedStates ->
              [run |-> NewRun(0), returned |-> TRUE]
         [] OTHER -> [run |-> NewRun(0), returned |-> FALSE]
  ELSE [run |-> NewRun(0), returned |-> FALSE]

\* the body of case di := <-updates (lines 228-241): the run after it, and
\* whether the function returned
OnUpdate(deal, u) ==
  IF deal = u.ProposalCid
  THEN CASE u.State = StorageDealProposalRejected ->
              [run |-> Fatal(NewRun(0), <<"deal rejected">>), returned |-> FALSE]
         [] u.State = StorageDealFailing ->
              [run |-> Fatal(NewRun(0), <<"deal failed">>), returned |-> FALSE]
         [] u.State = StorageDealError ->
              [run |-> Fatal(NewRun(0), <<"deal errored", u.Message>>), returned |-> FALSE]
         [] u.State \in PublishedStates ->
              [run |-> NewRun(0), returned |-> TRUE]
         [] OTHER -> [run |-> NewRun(0), returned |-> FALSE]
  ELSE [run |-> NewRun(0), returned |-> FALSE]

\* faulty variant of SelectUpdate: cancel is called before the return only,
\* not deferred
SelectUpdateCancelsOnReturn ==
  /\ op = "WaitDealPublished"
  /\ pc = "select"
  /\ updates # <<>> \/ closed
  /\ LET u == IF updates # <<>> THEN Head(updates) ELSE NoUpdate
         r == OnUpdate(target, u)
     IN /\ di' = u
        /\ updates' = IF updates # <<>> THEN Tail(updates) ELSE updates
        /\ fail' = r.run.fail
        /\ pc' = IF Failed(r.run) THEN "failed"
                 ELSE IF r.returned THEN "done" ELSE "select"
        /\ subCtx' = IF r.returned THEN "cancelled" ELSE subCtx
  /\ UNCHANGED <<op, target, ctxDone, closed, pollVars, envVars, outerVars>>

\* case di := <-updates (line 227): ready when an update waits or the channel
\* is closed
SelectUpdate ==
  /\ op = "WaitDealPublished"
  /\ pc = "select"
  /\ updates # <<>> \/ closed
  /\ LET u == IF updates # <<>> THEN Head(updates) ELSE NoUpdate
         r == OnUpdate(target, u)
     IN /\ di' = u
        /\ updates' = IF updates # <<>> THEN Tail(updates) ELSE updates
        /\ fail' = r.run.fail
        /\ pc' = IF Failed(r.run) THEN "failed"
                 ELSE IF r.returned THEN "done" ELSE "select"
        /\ subCtx' = IF Failed(r.run) \/ r.returned THEN "cancelled" ELSE subCtx
  /\ UNCHANGED <<op, target, ctxDone, closed, pollVars, envVars, outerVars>>

\* the market pushes a deal update into the live subscription
PushUpdate ==
  /\ op = "WaitDealPublished"
  /\ subCtx = "live"
  /\ ~closed
  /\ Len(updates) < MaxUpdates
  /\ \E u \in UpdateValues : updates' = Append(updates, u)
  /\ UNCHANGED <<op, pc, fail, target, ctxDone, subCtx, closed, di, pollVars, envVars, outerVars>>

\* the caller's context is cancelled or its deadline passes
CtxFires ==
  /\ op = "WaitDealPublished"
  /\ Running
  /\ ~ctxDone
  /\ ctxDone' = TRUE
  /\ UNCHANGED <<op, pc, fail, target, subCtx, updates, closed, di, pollVars, envVars, outerVars>>

\* the collaborator closes the update channel
StreamCloses ==
  /\ op = "WaitDealPublished"
  /\ subCtx = "live"
  /\ ~closed
  /\ closed' = TRUE
  /\ UNCHANGED <<op, pc, fail, target, ctxDone, subCtx, updates, di, pollVars, envVars, outerVars>>

\* the deals and sectors reach their final states
Settle ==
  /\ op = "WaitDealStates"
  /\ Running
  /\ ~settled
  /\ settled' = TRUE
  /\ UNCHANGED <<op, pc, fail, pollVars, dealInfo, sectors, pubVars, outerVars>>

\* ---------------------------------------------------------- specifications
Init == InitWaitDealStates \/ InitWaitDealPublished

WaitDealStatesNext ==
  \/ LoopCheck
  \/ \E d \in Deals : EvalDeal(d)
  \/ Sleep

MarketNext ==
  \/ \E d \in Deals : DealMoves(d)
  \/ \E i \in 1..(MaxSector + 1), d \in Deals : AddPiece(i, d)
  \/ \E i \in 1..(MaxSector + 1) : SectorSealed(i)

WaitDealPublishedNext ==
  \/ Subscribe
  \/ SelectDone
  \/ SelectUpdate
  \/ PushUpdate
  \/ CtxFires
  \/ StreamCloses

Next == WaitDealStatesNext \/ MarketNext \/ WaitDealPublishedNext

Spec == Init /\ [][Next]_vars

\* each converger on its own
PollingNext == WaitDealStatesNext \/ MarketNext

WaitDealStatesSpec == InitWaitDealStates /\ [][PollingNext]_vars

WaitDealPublishedSpec == InitWaitDealPublished /\ [][WaitDealPublishedNext]_vars

\* WaitDealPublished with its goroutine always scheduled again; a select with
\* the done case ready chooses among its ready cases at random, so it does
\* not pass the done case over for ever.
WaitDealPublishedLiveSpec ==
  /\ InitWaitDealPublished
  /\ [][WaitDealPublishedNext]_vars
  /\ WF_vars(Subscribe)
  /\ WF_vars(SelectDone)

\* ------------------------------------------------------------ WaitDealSealed
\* WaitDealSealed(ctx, deal, noseal, noSealStart) is called
InitWaitDealSealed ==
  /\ op = "WaitDealSealed"
  /\ pc = "entry"
  /\ fail = NoFail
  /\ sealed \in [noseal : BOOLEAN, noSealStart : BOOLEAN, at : {"entry"}, deal : Deals]
  /\ deals = <<>>
  /\ checks = <<>>
  /\ sectors \in SectorWorlds
  /\ \A i \in 1..Len(sectors) : sectors[i].deals \subseteq {sealed.deal}
  /\ todo = {}
  /\ visit = {}
  /\ passes = 0
  /\ sleeps = 0
  /\ dealInfo = [d \in Deals |-> FreshDeal]
  /\ settled = FALSE
  /\ lastEval = NoEval
  /\ passed = {}
  /\ target = 0
  /\ ctxDone = FALSE
  /\ subCtx = "none"
  /\ updates = <<>>
  /\ closed = FALSE
  /\ di = NoUpdate
  /\ cfg = NoConfig
  /\ opts = <<>>
  /\ cfgErr = ""

\* dh.WaitDealStates(ctx, ds, cks...): the callee starts at its loop with
\* todo built from ds
CallWaitDealStates(ds, cks) ==
  /\ op' = "WaitDealStates"
  /\ pc' = "loop"
  /\ deals' = ds
  /\ checks' = cks
  /\ todo' = Range(ds)
  /\ visit' = {}
  /\ passes' = 0
  /\ sleeps' = 0
  /\ lastEval' = NoEval
  /\ passed' = {}

\* if noseal { dh.WaitDealStates(... DealState(AwaitingPreCommit, Sealing, Active)) }
\* (lines 200-202)
SealedFirstWait ==
  /\ op = "WaitDealSealed"
  /\ sealed.at = "entry"
  /\ sealed.noseal
  /\ CallWaitDealStates(<<sealed.deal>>,
       <<MkDealState(<<StorageDealAwaitingPreCommit, StorageDealSealing, StorageDealActive>>)>>)
  /\ sealed' = [sealed EXCEPT !.at = "first"]
  /\ UNCHANGED <<fail, envVars, pubVars, cfg, opts, cfgErr>>

\* checks as lines 203-210 build them
SealedChecks(noSealStart) ==
  (IF noSealStart
   THEN <<MkDealOn(<<StorageDealAwaitingPreCommit, StorageDealSealing>>)>>
   ELSE <<>>) \o <<MkDealState(<<StorageDealActive>>)>>

\* lines 203-212, reached from the entry when noseal is false and from the
\* return of the first wait when it is true
SealedSecondWait ==
  /\ \/ op = "WaitDealSealed" /\ sealed.at = "entry" /\ ~sealed.noseal
     \/ op = "WaitDealStates" /\ sealed.at = "first" /\ pc = "done"
  /\ CallWaitDealStates(<<sealed.deal>>, SealedChecks(sealed.noSealStart))
  /\ sealed' = [sealed EXCEPT !.at = "second"]
  /\ UNCHANGED <<fail, envVars, pubVars, cfg, opts, cfgErr>>

\* WaitDealSealed returns (line 213)
SealedReturn ==
  /\ op = "WaitDealStates"
  /\ sealed.at = "second"
  /\ pc = "done"
  /\ op' = "WaitDealSealed"
  /\ sealed' = [sealed EXCEPT !.at = "returned"]
  /\ UNCHANGED <<pc, fail, pollVars, envVars, pubVars, cfg, opts, cfgErr>>

WaitDealSealedNext ==
  \/ SealedFirstWait
  \/ SealedSecondWait
  \/ SealedReturn
  \/ PollingNext

WaitDealSealedSpec == InitWaitDealSealed /\ [][WaitDealSealedNext]_vars

\* WaitDealStates with check lists made mostly of DealOn checks, the empty
\* trigger list among them
DealOnPool ==
  { MkDealOn(<<>>),
    MkDealOn(<<StorageDealPublishing>>),
    MkDealOn(<<StorageDealAwaitingPreCommit, StorageDealSealing>>),
    MkDealState(<<StorageDealActive>>) }

DealOnLists == SeqsUpTo(DealOnPool, MaxChecks)

InitDealOn == WaitDealStatesCalled(DealOnLists)

DealOnSpec == InitDealOn /\ [][PollingNext]_vars

\* WaitDealStates against collaborators that settle: the goroutine is always
\* scheduled again, its sleep ends and its requests are answered.
InitSettling ==
  /\ InitWaitDealStates
  /\ Len(deals) + Len(checks) + Len(sectors) <= MaxSettlingSize

SettlingNext == WaitDealStatesNext \/ MarketNext \/ Settle

SettlingSpec ==
  /\ InitSettling
  /\ [][SettlingNext]_vars
  /\ WF_vars(WaitDealStatesNext)

\* ------------------------------------------------------- ConfigStorageMiner
\* An Option is modelled by the primitive options applying it comes to, in
\* order: Error(err) fails with err, Override installs a constructor,
\* Options(opts...) applies opts in order up to the first error, and
\* If(b, opts...) is Options(opts...) when b holds and nothing otherwise.
Error(err) == <<[kind |-> "Error", err |-> err, what |-> ""]>>

Override(what) == <<[kind |-> "Override", err |-> "", what |-> what]>>

RECURSIVE Options(_)
Options(os) == IF os = <<>> THEN <<>> ELSE Head(os) \o Options(Tail(os))

If(b, os) == IF b THEN Options(os) ELSE <<>>

\* ConfigCommon(&cfg.Common): the common part of the configuration, which
\* may itself be in error
ConfigCommon(common) ==
  IF common.ok THEN Override("common") ELSE Error("invalid common config")

InvalidConfig == "invalid config from repo"
OnlyOnMiningNode == "sealing can only be enabled on a mining node"
CannotDisableYet == "sealing can't be disabled on a mining node yet"

StorageMinerConfigs ==
  { [type |-> "*config.StorageMiner",
     Common |-> [ok |-> k],
     Subsystems |-> [EnableMining |-> m, EnableSealing |-> sl,
                     EnableSectorStorage |-> ss, EnableStorageMarket |-> mk]] :
      k \in BOOLEAN, m \in BOOLEAN, sl \in BOOLEAN, ss \in BOOLEAN, mk \in BOOLEAN }

\* values of c that are not a *config.StorageMiner
OtherConfigs == { [type |-> "*config.FullNode"], [type |-> "nil"] }

\* faulty variant of ConfigStorageMiner: EnableSectorStorage is not checked
\* on a node that does not mine
ConfigStorageMinerSkipsStorage(c) ==
  IF c.type # "*config.StorageMiner" THEN Error(InvalidConfig)
  ELSE Options(<<
         ConfigCommon(c.Common),
         If(~c.Subsystems.EnableMining, <<
           If(c.Subsystems.EnableSealing, <<Error(OnlyOnMiningNode)>>) >>),
         If(c.Subsystems.EnableMining, <<
           If(~c.Subsystems.EnableSealing, <<Error(CannotDisableYet)>>),
           If(~c.Subsystems.EnableSectorStorage, <<Error(CannotDisableYet)>>),
           Override("mining") >>),
         If(c.Subsystems.EnableSectorStorage, <<Override("sector storage")>>),
         If(~c.Subsystems.EnableSectorStorage, <<Override("storage service")>>),
         If(~c.Subsystems.EnableSealing, <<Override("sealing service")>>),
         If(c.Subsystems.EnableStorageMarket, <<Override("markets")>>),
         Override("sealer config") >>)

\* ConfigStorageMiner(c); the Overrides of one If are one Override here
ConfigStorageMiner(c) ==
  IF c.type # "*config.StorageMiner" THEN Error(InvalidConfig)
  ELSE Options(<<
         ConfigCommon(c.Common),
         If(~c.Subsystems.EnableMining, <<
           If(c.Subsystems.EnableSealing, <<Error(OnlyOnMiningNode)>>),
           If(c.Subsystems.EnableSectorStorage, <<Error(OnlyOnMiningNode)>>) >>),
         If(c.Subsystems.EnableMining, <<
           If(~c.Subsystems.EnableSealing, <<Error(CannotDisableYet)>>),
           If(~c.Subsystems.EnableSectorStorage, <<Error(CannotDisableYet)>>),
           Override("mining") >>),
         If(c.Subsystems.EnableSectorStorage, <<Override("sector storage")>>),
         If(~c.Subsystems.EnableSectorStorage, <<Override("storage service")>>),
         If(~c.Subsystems.EnableSealing, <<Override("sealing service")>>),
         If(c.Subsystems.EnableStorageMarket, <<Override("markets")>>),
         Override("sealer config") >>)

\* ConfigStorageMiner(c) is about to be called
InitConfigStorageMiner ==
  /\ op = "ConfigStorageMiner"
  /\ pc = "call"
  /\ fail = NoFail
  /\ cfg \in StorageMinerConfigs \cup OtherConfigs
  /\ opts = <<>>
  /\ cfgErr = ""
  /\ sealed = NotSealing
  /\ deals = <<>>
  /\ checks = <<>>
  /\ sectors = <<>>
  /\ todo = {}
  /\ visit = {}
  /\ passes = 0
  /\ sleeps = 0
  /\ dealInfo = [d \in Deals |-> FreshDeal]
  /\ settled = FALSE
  /\ lastEval = NoEval
  /\ passed = {}
  /\ target = 0
  /\ ctxDone = FALSE
  /\ subCtx = "none"
  /\ updates = <<>>
  /\ closed = FALSE
  /\ di = NoUpdate

\* the call returns its Option
BuildOption ==
  /\ op = "ConfigStorageMiner"
  /\ pc = "call"
  /\ opts' = ConfigStorageMiner(cfg)
  /\ pc' = "apply"
  /\ UNCHANGED <<op, fail, pollVars, envVars, pubVars, sealed, cfg, cfgErr>>

\* the node builder applies the next primitive option of the Option
ApplyOption ==
  /\ op = "ConfigStorageMiner"
  /\ pc = "apply"
  /\ opts # <<>>
  /\ IF Head(opts).kind = "Error"
     THEN cfgErr' = Head(opts).err /\ pc' = "failed" /\ opts' = opts
     ELSE cfgErr' = cfgErr /\ pc' = pc /\ opts' = Tail(opts)
  /\ UNCHANGED <<op, fail, pollVars, envVars, pubVars, sealed, cfg>>

\* every option applied without error
OptionApplied ==
  /\ op = "ConfigStorageMiner"
  /\ pc = "apply"
  /\ opts = <<>>
  /\ pc' = "done"
  /\ UNCHANGED <<op, fail, pollVars, envVars, pubVars, outerVars>>

ConfigStorageMinerNext == BuildOption \/ ApplyOption \/ OptionApplied

ConfigStorageMinerSpec == InitConfigStorageMiner /\ [][ConfigStorageMinerNext]_vars

\* ================================================================== claims
FatalStates == {StorageDealProposalRejected, StorageDealFailing, StorageDealError}

\* what a fatal deal value is to be reported as
Classification(v) ==
  CASE v.State = StorageDealProposalRejected -> <<"deal rejected">>
    [] v.State = StorageDealFailing -> <<"deal failed">>
    [] OTHER -> <<"deal errored", v.Message>>

Evaluated == op = "WaitDealStates" /\ lastEval.deal # 0

\* the deal value the latest evaluation's snapshot showed
Snapshot == dealInfo[lastEval.deal]

\* the latest evaluation got its snapshot and every sector answer it asked for
NoCallFailed == \A i \in 1..Len(lastEval.calls) : ~lastEval.calls[i].err

\* check i was called in the latest evaluation: every check before it returned true
Entered(i) ==
  /\ i \in 1..Len(checks)
  /\ Len(lastEval.results) >= i - 1
  /\ \A j \in 1..(i - 1) : lastEval.results[j]

\* C1 as stated: whenever the snapshot fetched for a pending deal shows
\* ProposalRejected, Failing or Error, the wait fails in that same pass,
\* for every list of checks in every order.
C1_FatalSnapshotFailsWait ==
  (Evaluated /\ NoCallFailed /\ Snapshot.State \in FatalStates) => pc = "failed"

\* C1 amended: whenever the snapshot shows a fatal state and the evaluation
\* calls a DealState check that does not expect that state, the wait fails in
\* that same evaluation with that state's classification, whatever the other
\* tracked deals have done.
C1_FatalFailsAtDealState ==
  (/\ Evaluated
   /\ NoCallFailed
   /\ Snapshot.State \in FatalStates
   /\ \E i \in 1..Len(checks) :
        /\ checks[i].kind = "DealState"
        /\ ~Contains(checks[i].expect, Snapshot.State)
        /\ Entered(i))
  => (pc = "failed" /\ fail = Classification(Snapshot))

\* a second check failed the wait while the other tracked deal was still pending
C1_Witness ==
  /\ Evaluated
  /\ pc = "failed"
  /\ fail = <<"deal failed">>
  /\ Len(lastEval.results) = 1
  /\ Cardinality(todo) = 2
  /\ passes = 2

\* C2: WaitDealStates returns only after every distinct tracked deal has had an
\* evaluation in which all supplied checks returned true on that evaluation's
\* snapshot.
C2_ReturnsOnlyWhenAllPassed ==
  (op = "WaitDealStates" /\ pc = "done") => Tracked \subseteq passed

\* two deals, converged in different passes under two checks
C2_Witness ==
  /\ op = "WaitDealStates"
  /\ pc = "done"
  /\ Cardinality(Tracked) = 2
  /\ Len(checks) = 2
  /\ passes = 2

\* the listed sectors that hold deal d, by their place in the listing
Holders(d) == { i \in 1..Len(sectors) : d \in sectors[i].deals }

FirstHolder(d) == CHOOSE i \in Holders(d) : \A j \in Holders(d) : i <= j

\* Every supplied check returns true on deal d as it is now. A
\* DealSectorState check reads sector number 0 as "no sector" (C8), so a
\* deal whose first holder is sector 0 does not satisfy it.
Satisfied(d) ==
  \A i \in 1..Len(checks) :
    CASE checks[i].kind = "DealState" -> dealInfo[d].State \in Range(checks[i].expect)
      [] checks[i].kind = "DealSectorState" ->
           /\ Holders(d) # {}
           /\ sectors[FirstHolder(d)].num # 0
           /\ sectors[FirstHolder(d)].state = checks[i].sector
      [] OTHER -> TRUE

TransportFailed == pc = "failed" /\ Head(fail) = "NoError"

\* C3: once every pending deal is, and stays, in a state on which all checks
\* return true, WaitDealStates returns without error unless a collaborator
\* request fails, and it returns only with every tracked deal having passed.
C3_SettledWaitReturns ==
  /\ (/\ op = "WaitDealStates"
      /\ settled
      /\ Running
      /\ passes < MaxPasses
      /\ \A d \in todo : Satisfied(d))
       ~> (pc = "done" \/ TransportFailed)
  /\ [][(pc' = "done" /\ pc # "done") => (todo = {} /\ passed = Tracked)]_vars

\* a wait that needed a second pass after the collaborators settled
C3_Witness ==
  /\ op = "WaitDealStates"
  /\ settled
  /\ pc = "done"
  /\ passes = 2
  /\ Tracked # {}
  /\ checks # <<>>

Selecting == op = "WaitDealPublished" /\ pc = "select"

\* the step is a receive from the subscription
Received == Selecting /\ updates # <<>> /\ updates' = Tail(updates)

\* C4 as stated: once the context is done before a terminal update has been
\* classified, WaitDealPublished fails with "context timeout" and never
\* returns, also when a success-terminal update for the target is waiting.
C4_DoneContextNeverReturns ==
  [][(Selecting /\ ctxDone) =>
       (pc' # "done" /\ (pc' = "failed" => fail' = <<"context timeout">>))]_vars

\* C4 amended: when the select runs with the context done and nothing ready
\* on the subscription, the call fails with "context timeout"; with the
\* context done it returns only by receiving a waiting update of the target
\* deal in a published state, and fails otherwise only by receiving a waiting
\* fatal update of the target deal.
C4_TimeoutUnlessUpdateReady ==
  [][(Selecting /\ ctxDone /\ pc' # pc) =>
       \/ pc' = "failed" /\ fail' = <<"context timeout">>
       \/ /\ Received
          /\ Head(updates).ProposalCid = target
          /\ \/ pc' = "done" /\ Head(updates).State \in PublishedStates
             \/ /\ pc' = "failed"
                /\ Head(updates).State \in FatalStates
                /\ fail' = Classification(Head(updates))]_vars

\* the context ended a wait that had seen an update and had none waiting
C4_Witness ==
  /\ op = "WaitDealPublished"
  /\ pc = "failed"
  /\ fail = <<"context timeout">>
  /\ di # NoUpdate
  /\ updates = <<>>

\* C5: WaitDealPublished returns only on receiving an update of the target
\* deal in Finalizing, AwaitingPreCommit, Sealing or Active; an update of
\* another deal, or of the target in any other non-fatal state, leaves it
\* waiting without failure.
C5_ReturnsOnlyOnPublishedTarget ==
  /\ []((op = "WaitDealPublished" /\ pc = "done") =>
          (di.ProposalCid = target /\ di.State \in PublishedStates))
  /\ [][(op = "WaitDealPublished" /\ pc' = "done" /\ pc # "done") =>
          (Received /\ di' = Head(updates))]_vars
  /\ [][(/\ Received
         /\ \/ Head(updates).ProposalCid # target
            \/ Head(updates).State \notin (FatalStates \cup PublishedStates))
        => (pc' = "select" /\ fail' = NoFail)]_vars

\* the call returned on the target's Finalizing update
C5_Witness ==
  /\ op = "WaitDealPublished"
  /\ pc = "done"
  /\ di.ProposalCid = target
  /\ di.State = StorageDealFinalizing
  /\ updates # <<>>

DealFailures == {"deal rejected", "deal failed", "deal errored"}

\* C6: in both convergers a fatal deal state fails the test with its own
\* classification: "deal rejected", "deal failed", or "deal errored" with the
\* deal's message; a deal failure is reported only for the fatal state observed.
C6_FatalClassified ==
  /\ (op = "WaitDealStates" /\ pc = "failed" /\ Head(fail) # "NoError") =>
       (/\ Evaluated
        /\ Snapshot.State \in FatalStates
        /\ fail = Classification(Snapshot))
  /\ (op = "WaitDealPublished" /\ di.ProposalCid = target /\ di.State \in FatalStates) =>
       (pc = "failed" /\ fail = Classification(di))
  /\ (op = "WaitDealPublished" /\ pc = "failed" /\ Head(fail) \in DealFailures) =>
       (di.ProposalCid = target /\ di.State \in FatalStates /\ fail = Classification(di))

\* an errored deal reported with its message by the polling converger
C6_Witness ==
  /\ op = "WaitDealStates"
  /\ pc = "failed"
  /\ fail = <<"deal errored", "insufficient funds">>
  /\ Len(lastEval.results) = 1

\* C7: an error returned by any collaborator request made during a wait ends
\* the wait at that request: it is the last request the invocation makes and
\* the test fails on it.
C7_ErrorAbortsWait ==
  /\ [](Evaluated =>
          \A i \in 1..Len(lastEval.calls) :
            lastEval.calls[i].err =>
              /\ i = Len(lastEval.calls)
              /\ pc = "failed"
              /\ fail = <<"NoError", lastEval.calls[i].op>>)
  /\ []((op = "WaitDealPublished" /\ fail = <<"NoError", "MarketGetDealUpdates">>) =>
          (pc = "failed" /\ di = NoUpdate /\ updates = <<>>))
  /\ [][pc = "failed" =>
          (pc' = "failed" /\ fail' = fail /\ lastEval' = lastEval /\ di' = di)]_vars

\* the sealing trigger issued by the DealOn callback failed the wait
C7_Witness ==
  /\ Evaluated
  /\ pc = "failed"
  /\ fail = <<"NoError", "SectorStartSealing">>
  /\ lastEval.cbs = 1

\* C8: a DealSectorState(target) check returns false when no listed sector
\* holds the deal, and otherwise returns true exactly when the holding
\* sector's state is target, whatever that sector's number.
C8_SectorCheckFollowsHolder ==
  Evaluated =>
    \A i \in 1..Len(lastEval.results) :
      checks[i].kind = "DealSectorState" =>
        (lastEval.results[i] <=>
           /\ Holders(lastEval.deal) # {}
           /\ sectors[FirstHolder(lastEval.deal)].state = checks[i].sector)

\* the latest evaluation's k-th request after its first three is the status
\* query of the k-th listed sector
LookupQuery(k) ==
  /\ 3 + k <= Len(lastEval.calls)
  /\ lastEval.calls[3 + k].op = "SectorsStatus"
  /\ lastEval.calls[3 + k].arg = sectors[k].num

\* C9: the lookup of an evaluation yields the first listed sector that holds
\* the deal, the "none" value (sector number 0, what ms holds when nothing
\* matched) exactly when no listed sector holds it, and queries no sector
\* after the one that matched.
C9_LookupYieldsFirstHolder ==
  (Evaluated /\ NoCallFailed) =>
    IF Holders(lastEval.deal) = {}
    THEN /\ lastEval.ms = 0
         /\ \A k \in 1..Len(sectors) : LookupQuery(k)
    ELSE /\ lastEval.ms = sectors[FirstHolder(lastEval.deal)].num
         /\ lastEval.ms # 0
         /\ \A k \in 1..FirstHolder(lastEval.deal) : LookupQuery(k)
         /\ FirstHolder(lastEval.deal) < Len(sectors) =>
              ~LookupQuery(FirstHolder(lastEval.deal) + 1)

IsDealFailure(f) == f # NoFail /\ Head(f) \in DealFailures

\* C10: a DealState(expect...) check returns true exactly when the deal's
\* state is in expect, fatal or not; on a state outside expect it fails the
\* test when the state is fatal and returns false otherwise.
C10_DealStateCheck ==
  (Evaluated /\ NoCallFailed) =>
    \A i \in 1..Len(checks) :
      (checks[i].kind = "DealState" /\ Entered(i)) =>
        IF Snapshot.State \in Range(checks[i].expect)
        THEN Len(lastEval.results) >= i /\ lastEval.results[i]
        ELSE IF Snapshot.State \in FatalStates
        THEN Len(lastEval.results) = i - 1 /\ IsDealFailure(lastEval.fail) /\ pc = "failed"
        ELSE Len(lastEval.results) = i /\ ~lastEval.results[i] /\ lastEval.fail = NoFail

\* a DealState check that expects Error returned true on an errored deal
C10_Witness ==
  /\ Evaluated
  /\ Snapshot.State = StorageDealError
  /\ Len(lastEval.results) = 2
  /\ checks[2].kind = "DealState"
  /\ lastEval.results[2]
  /\ lastEval.done

\* C11: a DealOn check returns true every time it returns, whatever the deal's
\* state and its trigger states (none included) and whether or not the
\* callback ran; a deal whose checks are all DealOn checks leaves todo in the
\* first evaluation that makes every request successfully.
C11_DealOnReturnsTrue ==
  Evaluated =>
    /\ \A i \in 1..Len(lastEval.results) :
         checks[i].kind = "DealOn" => lastEval.results[i]
    /\ \A i \in 1..Len(checks) :
         (checks[i].kind = "DealOn" /\ Entered(i) /\ lastEval.fail = NoFail) =>
            Len(lastEval.results) >= i
    /\ ((\A i \in 1..Len(checks) : checks[i].kind = "DealOn") /\ lastEval.fail = NoFail) =>
         (lastEval.done /\ lastEval.deal \notin todo)

\* a DealOn with no trigger states and one whose callback did not run both
\* returned true, and the deal left todo
C11_Witness ==
  /\ Evaluated
  /\ checks = <<MkDealOn(<<>>), MkDealOn(<<StorageDealAwaitingPreCommit, StorageDealSealing>>)>>
  /\ Snapshot.State = StorageDealFailing
  /\ lastEval.results = <<TRUE, TRUE>>
  /\ lastEval.cbs = 0
  /\ lastEval.deal \notin todo

\* the requests an evaluation makes up to the end of its sector lookup
LookupLen ==
  3 + (IF Holders(lastEval.deal) = {} THEN Len(sectors) ELSE FirstHolder(lastEval.deal))

\* the latest evaluation got its snapshot and finished its lookup
LookupDone ==
  /\ Len(lastEval.calls) >= LookupLen
  /\ \A i \in 1..LookupLen : ~lastEval.calls[i].err

\* the DealOn checks of the list that the snapshot's state triggers
Triggered ==
  { i \in 1..Len(checks) :
      checks[i].kind = "DealOn" /\ Contains(checks[i].expect, Snapshot.State) }

\* C12 as stated: in every evaluation whose snapshot state is among a DealOn
\* check's trigger states that check's callback runs exactly once, and not at
\* all otherwise, wherever the check sits in the list.
C12_CallbackOncePerPass ==
  (Evaluated /\ NoCallFailed) => lastEval.cbs = Cardinality(Triggered)

\* C12 amended: the callback of a DealOn check runs exactly once in every
\* evaluation that calls the check (every check before it returned true) with
\* the snapshot state among its trigger states, and in no other evaluation.
C12_CallbackOncePerReachedCheck ==
  Evaluated =>
    lastEval.cbs =
      IF LookupDone THEN Cardinality({ i \in Triggered : Entered(i) }) ELSE 0

\* in a second pass the callback ran again, behind a check that returned true
C12_Witness ==
  /\ Evaluated
  /\ passes = 2
  /\ Cardinality(Tracked) = 1
  /\ checks[1].kind = "DealState"
  /\ Triggered = {2}
  /\ lastEval.cbs = 1
  /\ lastEval.results = <<TRUE, TRUE>>
  /\ sleeps = 1

\* C13: WaitDealStates sleeps after a pass only if todo is still non-empty at
\* the end of that pass, so a wait that returns after p passes has slept
\* exactly p - 1 times.
C13_SleepsOnlyWhilePending ==
  op = "WaitDealStates" =>
    /\ pc = "sleep" => todo # {}
    /\ (pc = "done" /\ passes >= 1) => sleeps = passes - 1

\* C14: WaitDealSealed with noseal = true returns as soon as a pass has seen
\* the deal in AwaitingPreCommit, Sealing or Active: it never goes on to the
\* wait that requires Active, and it returns with the deal in one of those
\* three states having passed.
C14_NosealReturnsOnWidenedSet ==
  sealed.noseal =>
    /\ sealed.at # "second"
    /\ (sealed.at = "first" /\ pc = "done") => sealed.deal \in passed

\* the requests of one kind the latest evaluation made, by their arguments
ArgsOf(name) ==
  LET sel == SelectSeq(lastEval.calls, LAMBDA c : c.op = name)
  IN [i \in 1..Len(sel) |-> sel[i].arg]

\* the latest evaluation ran the callback WaitDealSealed attaches, to its end
CallbackRan ==
  /\ Evaluated
  /\ sealed.at = "second"
  /\ sealed.noSealStart
  /\ lastEval.cbs = 1
  /\ lastEval.fail = NoFail

\* C15 as stated: when the attached callback runs, begin-sealing is requested
\* only for the sector that holds the awaited deal and only when that sector
\* is in WaitDeals, and a flush is requested every time, also when no sector
\* is listed.
C15_StartsOnlyCorrelatedSector ==
  CallbackRan =>
    /\ ArgsOf("SectorStartSealing") =
         IF Holders(lastEval.deal) # {}
            /\ sectors[FirstHolder(lastEval.deal)].state = WaitDeals
         THEN <<sectors[FirstHolder(lastEval.deal)].num>>
         ELSE <<>>
    /\ Len(ArgsOf("FlushSealingBatches")) >= 1

\* the listed sectors in WaitDeals, by number, in listing order
WaitingSectors ==
  LET sel == SelectSeq(sectors, LAMBDA r : r.state = WaitDeals)
  IN [i \in 1..Len(sel) |-> sel[i].num]

\* C15 amended: when the attached callback runs, begin-sealing is requested
\* once for every listed sector that is in WaitDeals, whether or not it
\* holds the awaited deal, and for no other sector; a flush is requested once
\* per listed sector, so not at all when no sector is listed. An evaluation
\* in which the callback does not run makes none of these requests.
C15_StartsEveryWaitingSector ==
  /\ CallbackRan =>
       /\ ArgsOf("SectorStartSealing") = WaitingSectors
       /\ Len(ArgsOf("FlushSealingBatches")) = Len(sectors)
  /\ (Evaluated /\ lastEval.cbs = 0) =>
       /\ ArgsOf("SectorStartSealing") = <<>>
       /\ ArgsOf("FlushSealingBatches") = <<>>

\* two sectors in WaitDeals, the second one not holding the deal, were both
\* started
C15_Witness ==
  /\ CallbackRan
  /\ Len(sectors) = 2
  /\ sectors[2].deals = {}
  /\ Holders(lastEval.deal) = {1}
  /\ ArgsOf("SectorStartSealing") = <<sectors[1].num, sectors[2].num>>
  /\ Len(ArgsOf("FlushSealingBatches")) = 2

\* C16: once the caller's context is done WaitDealPublished ends, whatever
\* the update stream does (silent, delivering, closed); while it runs it
\* stands at its select or at the subscription request, which is answered.
C16_DoneContextEndsCall ==
  /\ (op = "WaitDealPublished" /\ ctxDone) ~> ~Running
  /\ []((op = "WaitDealPublished" /\ Running) =>
          (pc = "select" \/ (pc = "subscribe" /\ ENABLED Subscribe)))

\* the context ended a call whose stream had been closed without any update
C16_Witness ==
  /\ op = "WaitDealPublished"
  /\ pc = "failed"
  /\ fail = <<"context timeout">>
  /\ closed
  /\ di = NoUpdate

\* the step is one iteration of the range over todo
EvalStep == op = "WaitDealStates" /\ pc = "pass" /\ (visit' # visit \/ pc' = "failed")

\* C17: a pass evaluates each deal that is in todo when the pass begins once,
\* one after the other, and a deal removed from todo is never evaluated
\* again, so a later change of that deal, even into a fatal state, does not
\* fail the wait.
C17_PendingDealsOncePerPass ==
  /\ [](op = "WaitDealStates" =>
          /\ visit \subseteq todo
          /\ pc \in {"loop", "sleep", "done"} => visit = {}
          /\ (pc = "failed" /\ IsDealFailure(fail)) => lastEval.deal \in todo)
  /\ [][(op = "WaitDealStates" /\ pc = "loop" /\ pc' = "pass") => visit' = todo]_vars
  /\ [][EvalStep =>
          /\ lastEval'.deal \in visit
          /\ lastEval'.deal \in todo
          /\ pc' # "failed" => visit' = visit \ {lastEval'.deal}
          /\ pc' = "sleep" <=> (pc' # "failed" /\ visit' = {})]_vars

\* the wait returned although a deal that had converged in the first pass
\* failed before the second pass
C17_Witness ==
  /\ op = "WaitDealStates"
  /\ pc = "done"
  /\ checks = <<MkDealState(<<StorageDealActive>>)>>
  /\ Cardinality(Tracked) = 2
  /\ passes = 2
  /\ \E d \in Tracked : dealInfo[d].State = StorageDealFailing

\* C18: todo is always a subset of the distinct deals passed in, holds no more
\* entries than there are distinct deals even when the list repeats one, and
\* changes only by losing the deal just evaluated when all its checks
\* returned true.
C18_TodoOnlyShrinks ==
  /\ [](op = "WaitDealStates" =>
          /\ todo \subseteq Tracked
          /\ Cardinality(todo) <= Cardinality(Tracked)
          /\ (pc = "loop" /\ passes = 0) => todo = Tracked)
  /\ [][(op = "WaitDealStates" /\ todo' # todo) =>
          /\ EvalStep
          /\ todo' = todo \ {lastEval'.deal}
          /\ lastEval'.deal \in todo
          /\ lastEval'.done
          /\ lastEval'.fail = NoFail
          /\ Len(lastEval'.results) = Len(checks)
          /\ AllTrue(lastEval'.results)]_vars

\* a list naming one deal twice was emptied by one evaluation under two checks
C18_Witness ==
  /\ op = "WaitDealStates"
  /\ Len(deals) = 2
  /\ Cardinality(Tracked) = 1
  /\ Len(checks) = 2
  /\ todo = {}
  /\ passes = 1
  /\ pc = "sleep"

\* C19: WaitDealPublished subscribes before it first receives; the
\* subscription's context is cancelled whenever the call has ended, by
\* return, deal failure, timeout or failed subscription, and nothing is
\* delivered after that; no step of the call changes the caller's context.
C19_SubscriptionEndsWithCall ==
  /\ [](op = "WaitDealPublished" =>
          /\ pc = "subscribe" => (subCtx = "none" /\ di = NoUpdate /\ updates = <<>>)
          /\ pc = "select" => subCtx = "live"
          /\ pc \in {"done", "failed"} => subCtx = "cancelled")
  /\ [][subCtx = "cancelled" => (subCtx' = "cancelled" /\ updates' = updates)]_vars
  /\ [][ctxDone' # ctxDone => (pc' = pc /\ fail' = fail /\ subCtx' = subCtx /\ di' = di)]_vars

\* a fatal update ended the call with another update still waiting and the
\* caller's context untouched
C19_Witness ==
  /\ op = "WaitDealPublished"
  /\ pc = "failed"
  /\ fail = <<"deal rejected">>
  /\ subCtx = "cancelled"
  /\ ~ctxDone
  /\ updates # <<>>

\* the subsystem flags of a storage-miner configuration disagree
FlagsDisagree(c) ==
  \/ c.Subsystems.EnableMining # c.Subsystems.EnableSealing
  \/ c.Subsystems.EnableMining # c.Subsystems.EnableSectorStorage

\* the error the flags of c call for
FlagError(c) ==
  IF c.Subsystems.EnableMining THEN CannotDisableYet ELSE OnlyOnMiningNode

\* the errors an Option holds
ErrorsOf(o) == { o[i].err : i \in { j \in 1..Len(o) : o[j].kind = "Error" } }

\* C20: for a *config.StorageMiner the Option of ConfigStorageMiner holds a
\* subsystem error exactly when EnableMining, EnableSealing and
\* EnableSectorStorage do not all agree, the error being the one for the
\* value of EnableMining, and applying it succeeds only when they agree; for
\* a value of another type the Option is the invalid-config error.
C20_FlagErrorsIffDisagree ==
  op = "ConfigStorageMiner" =>
    IF cfg \in StorageMinerConfigs
    THEN /\ ErrorsOf(ConfigStorageMiner(cfg)) \ {"invalid common config"} =
              IF FlagsDisagree(cfg) THEN {FlagError(cfg)} ELSE {}
         /\ pc = "done" => (~FlagsDisagree(cfg) /\ cfgErr = "")
         /\ (pc = "failed" /\ cfg.Common.ok) =>
              (FlagsDisagree(cfg) /\ cfgErr = FlagError(cfg))
         /\ (pc = "apply" /\ cfg.Common.ok /\ FlagsDisagree(cfg)) => opts # <<>>
    ELSE /\ ConfigStorageMiner(cfg) = Error(InvalidConfig)
         /\ pc # "done"
         /\ pc = "failed" => cfgErr = InvalidConfig

\* a node that does not mine but enables sector storage was refused
C20_Witness ==
  /\ op = "ConfigStorageMiner"
  /\ pc = "failed"
  /\ cfg \in StorageMinerConfigs
  /\ ~cfg.Subsystems.EnableMining
  /\ ~cfg.Subsystems.EnableSealing
  /\ cfg.Subsystems.EnableSectorStorage
  /\ cfgErr = OnlyOnMiningNode

====
